---- MODULE Spec2Model ----
(***************************************************************************)
(* Model of scripts/check_placement.py: MemoryAnalyzer, the placement rule *)
(* engine for RP2040/FreeRTOS firmware images.                             *)
(*                                                                         *)
(* Message lines are TLA+ strings built exactly as the f-strings of the    *)
(* source build them, with one change of alphabet: the arrow that opens a  *)
(* follow-up line is written "->".  Severity bucketing is the substring    *)
(* test of the source, computed on the whole line.                         *)
(***************************************************************************)
EXTENDS Integers, Sequences, FiniteSets, TLC

VARIABLES nm, objdump, var_name, pc, var, all_problems, all_warnings

vars == <<nm, objdump, var_name, pc, var, all_problems, all_warnings>>

(***************************************************************************)
(* RP2040 memory map (class attributes of MemoryAnalyzer).                 *)
(***************************************************************************)
FLASH_START == 268435456      \* 0x10000000
FLASH_END == 270532608        \* 0x10200000
SCRATCH_X_START == 537133056  \* 0x20040000
SCRATCH_Y_END == 537141248    \* 0x20042000

\* Python's None for an unresolved boundary or an undefined symbol's address;
\* every resolved address is an unsigned integer, so -1 is none of them.
None == -1

(***************************************************************************)
(* String helpers: Python's `in`, str.lower(), :08x and str(int).          *)
(***************************************************************************)
Contains(k, t) ==
    \E i \in 1..(Len(t) - Len(k) + 1) : SubSeq(t, i, i + Len(k) - 1) = k

LowerChar(c) ==
    CASE c = "A" -> "a" [] c = "B" -> "b" [] c = "C" -> "c" [] c = "D" -> "d"
      [] c = "E" -> "e" [] c = "F" -> "f" [] c = "G" -> "g" [] c = "H" -> "h"
      [] c = "I" -> "i" [] c = "J" -> "j" [] c = "K" -> "k" [] c = "L" -> "l"
      [] c = "M" -> "m" [] c = "N" -> "n" [] c = "O" -> "o" [] c = "P" -> "p"
      [] c = "Q" -> "q" [] c = "R" -> "r" [] c = "S" -> "s" [] c = "T" -> "t"
      [] c = "U" -> "u" [] c = "V" -> "v" [] c = "W" -> "w" [] c = "X" -> "x"
      [] c = "Y" -> "y" [] c = "Z" -> "z" [] OTHER -> c

RECURSIVE Lower(_)
Lower(s) ==
    IF Len(s) = 0 THEN ""
    ELSE LowerChar(SubSeq(s, 1, 1)) \o Lower(SubSeq(s, 2, Len(s)))

HexDigit(d) == SubSeq("0123456789abcdef", d + 1, d + 1)

RECURSIVE HexPad(_, _)
HexPad(n, w) ==
    IF w = 0 /\ n = 0 THEN ""
    ELSE HexPad(n \div 16, IF w > 0 THEN w - 1 ELSE 0) \o HexDigit(n % 16)

Hex8(n) == HexPad(n, 8)

Abs(x) == IF x < 0 THEN -x ELSE x

(***************************************************************************)
(* The ELF as the tools print it.  A line of `nm` is [addr, name]; a line  *)
(* of an undefined symbol has no address column (addr = None) and so has   *)
(* fewer than three parts.                                                 *)
(***************************************************************************)
HasThreeParts(line) == line.addr # None

\* get_variable_info: the first defined line whose last part is var_name;
\* the section is what objdump -t reports for it.
RECURSIVE FindSymbol(_, _)
FindSymbol(lines, name) ==
    IF lines = <<>> THEN None
    ELSE IF HasThreeParts(Head(lines)) /\ Head(lines).name = name
         THEN Head(lines).addr
         ELSE FindSymbol(Tail(lines), name)

get_variable_info(lines, section, name) ==
    [name |-> name, address |-> FindSymbol(lines, name), section |-> section]

(***************************************************************************)
(* check_volatile_placement                                                *)
(***************************************************************************)
InFlash_EndInclusive(a) == FLASH_START <= a /\ a <= FLASH_END

Misaligned_HalfWord(a) == a % 2 # 0

InFlash(a) == FLASH_START <= a /\ a < FLASH_END

Misaligned(a) == a % 4 # 0

InScratch(a) == SCRATCH_X_START <= a /\ a < SCRATCH_Y_END

check_volatile_placement(v) ==
    (IF InFlash(v.address)
     THEN << "CRITICAL: Volatile variable '" \o v.name \o "' placed in FLASH (0x"
                \o Hex8(v.address) \o ")",
             "  -> Flash is read-only at runtime, volatile won't work!",
             "  -> Solution: Force placement in RAM section" >>
     ELSE <<>>)
    \o
    (IF Misaligned(v.address)
     THEN << "ERROR: Variable '" \o v.name \o "' not 4-byte aligned (0x"
                \o Hex8(v.address) \o ")",
             "  -> Required for atomic operations in SMP",
             "  -> Solution: Add __attribute__((aligned(4)))" >>
     ELSE <<>>)
    \o
    (IF InScratch(v.address)
     THEN << "WARNING: Variable '" \o v.name \o "' in scratch RAM (0x"
                \o Hex8(v.address) \o ")",
             "  -> Scratch regions have special multicore behavior",
             "  -> May cause cache coherency issues" >>
     ELSE <<>>)

(***************************************************************************)
(* check_memory_conflicts                                                  *)
(***************************************************************************)
NoBoundaries ==
    [heap_start |-> None, heap_end |-> None,
     stack_start |-> None, stack_end |-> None]

\* One iteration of the loop over the symbol lines.
ParseLine(b, line) ==
    IF ~HasThreeParts(line) THEN b
    ELSE IF line.name = "_heap_start"
         THEN [b EXCEPT !.heap_start = line.addr]
    ELSE IF line.name = "_heap_end" \/ line.name = "__HeapLimit"
         THEN [b EXCEPT !.heap_end = line.addr]
    ELSE IF line.name = "__StackTop" \/ line.name = "_stack_top"
         THEN [b EXCEPT !.stack_end = line.addr]
    ELSE IF line.name = "__StackLimit" \/ line.name = "_stack_bottom"
         THEN [b EXCEPT !.stack_start = line.addr]
    ELSE b

RECURSIVE ParseBoundaries(_, _)
ParseBoundaries(lines, b) ==
    IF lines = <<>> THEN b
    ELSE ParseBoundaries(Tail(lines), ParseLine(b, Head(lines)))

\* Python truthiness of an Optional[int]: None and 0 are both false.
Truthy(x) == x # None /\ x # 0

HeapCheck_StartOnly(v, b) ==
    IF Truthy(b.heap_start)
    THEN IF b.heap_start <= v.address /\ v.address < b.heap_end
         THEN << "CRITICAL: Variable '" \o v.name \o "' overlaps with heap!" >>
         ELSE IF Abs(v.address - b.heap_start) < 256
         THEN << "WARNING: Variable '" \o v.name
                    \o "' very close to heap (distance: "
                    \o ToString(Abs(v.address - b.heap_start)) \o " bytes)" >>
         ELSE <<>>
    ELSE <<>>

HeapCheck(v, b) ==
    IF Truthy(b.heap_start) /\ Truthy(b.heap_end)
    THEN IF b.heap_start <= v.address /\ v.address < b.heap_end
         THEN << "CRITICAL: Variable '" \o v.name \o "' overlaps with heap!",
                 "  -> Variable at 0x" \o Hex8(v.address) \o ", heap: 0x"
                    \o Hex8(b.heap_start) \o "-0x" \o Hex8(b.heap_end) >>
         ELSE IF Abs(v.address - b.heap_start) < 256
         THEN << "WARNING: Variable '" \o v.name
                    \o "' very close to heap (distance: "
                    \o ToString(Abs(v.address - b.heap_start)) \o " bytes)" >>
         ELSE <<>>
    ELSE <<>>

StackCheck(v, b) ==
    IF Truthy(b.stack_start) /\ Truthy(b.stack_end)
    THEN IF b.stack_start <= v.address /\ v.address < b.stack_end
         THEN << "CRITICAL: Variable '" \o v.name \o "' overlaps with stack!" >>
         ELSE IF Abs(v.address - b.stack_start) < 1024
         THEN << "WARNING: Variable '" \o v.name
                    \o "' close to stack (distance: "
                    \o ToString(Abs(v.address - b.stack_start)) \o " bytes)" >>
         ELSE <<>>
    ELSE <<>>

check_memory_conflicts(v, lines) ==
    LET b == ParseBoundaries(lines, NoBoundaries)
    IN  HeapCheck(v, b) \o StackCheck(v, b)

(***************************************************************************)
(* check_freertos_specific                                                 *)
(***************************************************************************)
IsFreertosHeap(line) ==
    HasThreeParts(line)
    /\ (Contains("ucHeap", line.name) \/ Contains("xHeap", line.name))

InArena_EndInclusive(a, base) == base <= a /\ a <= base + 65536

InArena(a, base) == base <= a /\ a < base + 65536

RECURSIVE FreertosHeapCheck(_, _)
FreertosHeapCheck(v, lines) ==
    IF lines = <<>> THEN <<>>
    ELSE (IF IsFreertosHeap(Head(lines)) /\ InArena(v.address, Head(lines).addr)
          THEN << "ERROR: Variable '" \o v.name \o "' inside FreeRTOS heap!",
                  "  -> Will be overwritten by dynamic allocation" >>
          ELSE <<>>)
         \o FreertosHeapCheck(v, Tail(lines))

NameSaysVolatile_CaseSensitive(name) == Contains("volatile", name)

NameSaysVolatile(name) == Contains("volatile", Lower(name))

BssCheck(v) ==
    IF v.section = ".bss" /\ NameSaysVolatile(v.name)
    THEN << "WARNING: Volatile variable '" \o v.name \o "' in .bss section",
            "  -> May not be initialized before FreeRTOS starts",
            "  -> Solution: Place in .data with explicit init value" >>
    ELSE <<>>

check_freertos_specific(v, lines) ==
    FreertosHeapCheck(v, lines) \o BssCheck(v)

(***************************************************************************)
(* analyze_variable: the three checks, each bucketed by substring.         *)
(***************************************************************************)
IsProblemLine(p) == Contains("CRITICAL", p) \/ Contains("ERROR", p)

IsWarningLine(p) == Contains("WARNING", p)

ProblemsOf(problems) == SelectSeq(problems, IsProblemLine)

WarningsOf(problems) == SelectSeq(problems, IsWarningLine)

\* Everything the three checks return, in the order they run.
AllCheckLines(v, lines) ==
    check_volatile_placement(v)
    \o check_memory_conflicts(v, lines)
    \o check_freertos_specific(v, lines)

(***************************************************************************)
(* Inputs.  The image is what nm prints (the subject's own line first,     *)
(* then up to MaxSyms other lines) and the section objdump reports.        *)
(***************************************************************************)
MaxSyms == 2

SubjectNames == {"gVolatileFlag", "gCounter", "rxERROR_volatile", "WARNING_mask"}

Sections == {".bss", ".data"}

SubjectAddrs ==
    { 16,
      268435456, 268455936, 268455937, 268455938, 270532607, 270532608,
      536903680, 536903936, 536969216,
      536935936, 536936192, 536936193, 536936272, 536936448, 536937728,
      536940544,
      537132032, 537132033, 537133056, 537135104, 537137152,
      537141247, 537141248 }

\* Lines of nm besides the subject's: the boundary markers (one of each kind
\* at address 0, one undefined) and the RTOS heap arrays.
SymLines ==
    { [addr |-> 536936448, name |-> "_heap_start"],
      [addr |-> 0,         name |-> "_heap_start"],
      [addr |-> 536940544, name |-> "__HeapLimit"],
      [addr |-> 537133056, name |-> "__StackLimit"],
      [addr |-> 0,         name |-> "_stack_bottom"],
      [addr |-> 537137152, name |-> "__StackTop"],
      [addr |-> None,      name |-> "_stack_top"],
      [addr |-> 536903680, name |-> "ucHeap"],
      [addr |-> 0,         name |-> "xHeap"] }

SymTables == UNION { [1..n -> SymLines] : n \in 0..MaxSyms }

NoVar == [name |-> "", address |-> None, section |-> ""]

Init ==
    /\ var_name \in SubjectNames
    /\ objdump \in Sections
    /\ \E others \in SymTables :
          \/ nm = others
          \/ \E a \in SubjectAddrs :
                nm = <<[addr |-> a, name |-> var_name]>> \o others
    /\ pc = "start"
    /\ var = NoVar
    /\ all_problems = <<>>
    /\ all_warnings = <<>>

\* analyze_variable when get_variable_info returns None.
AnalyzeNotFound ==
    /\ pc = "start"
    /\ FindSymbol(nm, var_name) = None
    /\ pc' = "not_found"
    /\ all_problems' = << "Variable '" \o var_name \o "' not found in ELF" >>
    /\ all_warnings' = <<>>
    /\ UNCHANGED <<nm, objdump, var_name, var>>

\* analyze_variable on a resolved variable.
AnalyzeVariable ==
    /\ pc = "start"
    /\ FindSymbol(nm, var_name) # None
    /\ LET v  == get_variable_info(nm, objdump, var_name)
           p1 == check_volatile_placement(v)
           p2 == check_memory_conflicts(v, nm)
           p3 == check_freertos_specific(v, nm)
       IN  /\ var' = v
           /\ all_problems' = ProblemsOf(p1) \o ProblemsOf(p2) \o ProblemsOf(p3)
           /\ all_warnings' = WarningsOf(p1) \o WarningsOf(p2) \o WarningsOf(p3)
    /\ pc' = "done"
    /\ UNCHANGED <<nm, objdump, var_name>>

Next == AnalyzeNotFound \/ AnalyzeVariable

Spec == Init /\ [][Next]_vars

(***************************************************************************)
(* Vocabulary of the properties.  A finding is recognised by the fixed     *)
(* wording of its primary message; no symbol name contains a space, so no  *)
(* name can carry one of these tags.                                       *)
(***************************************************************************)
Lines(seq) == { seq[i] : i \in 1..Len(seq) }

Count(tag, seq) == Cardinality({ i \in 1..Len(seq) : Contains(tag, seq[i]) })

StartsWith(prefix, l) ==
    Len(l) >= Len(prefix) /\ SubSeq(l, 1, Len(prefix)) = prefix

IsCritical(l) == StartsWith("CRITICAL: ", l)

IsError(l) == StartsWith("ERROR: ", l)

IsWarning(l) == StartsWith("WARNING: ", l)

IsPrimary(l) == IsCritical(l) \/ IsError(l) \/ IsWarning(l)

Result == all_problems \o all_warnings

Resolved == ParseBoundaries(nm, NoBoundaries)

Produced == AllCheckLines(var, nm)

Addr == var.address

\* The addresses the heap markers of the image resolve to.
MarkerBases ==
    { nm[i].addr : i \in { j \in 1..Len(nm) :
          /\ nm[j].addr # None
          /\ (Contains("ucHeap", nm[j].name) \/ Contains("xHeap", nm[j].name)) } }

MarkerHits ==
    { i \in 1..Len(nm) :
          /\ nm[i].addr # None
          /\ (Contains("ucHeap", nm[i].name) \/ Contains("xHeap", nm[i].name))
          /\ nm[i].addr <= Addr /\ Addr < nm[i].addr + 65536 }

HeapFindings(seq) == Count("overlaps with heap", seq) + Count("close to heap", seq)

StackFindings(seq) == Count("overlaps with stack", seq) + Count("close to stack", seq)

(***************************************************************************)
(* C1: analyze_variable partitions the findings by severity: a critical or *)
(* error finding is in the problems list and not in the warnings list, a   *)
(* warning finding is in the warnings list and not in the problems list.   *)
(***************************************************************************)
C1_SeverityPartition ==
    pc = "done" =>
        \A l \in Lines(Produced) :
            /\ (IsCritical(l) \/ IsError(l)) =>
                   l \in Lines(all_problems) /\ l \notin Lines(all_warnings)
            /\ IsWarning(l) =>
                   l \in Lines(all_warnings) /\ l \notin Lines(all_problems)

(***************************************************************************)
(* C2: with heap_start and heap_end both resolved (0 included): inside     *)
(* [heap_start, heap_end) a critical heap-overlap finding; otherwise       *)
(* within 256 bytes of heap_start a proximity warning; otherwise no        *)
(* heap-related finding.                                                   *)
(***************************************************************************)
C2_HeapRule ==
    (pc = "done" /\ Resolved.heap_start # None /\ Resolved.heap_end # None) =>
        IF Resolved.heap_start <= Addr /\ Addr < Resolved.heap_end
        THEN \E l \in Lines(Result) : IsCritical(l) /\ Contains("overlaps with heap", l)
        ELSE IF Abs(Addr - Resolved.heap_start) < 256
        THEN \E l \in Lines(Result) : IsWarning(l) /\ Contains("close to heap", l)
        ELSE HeapFindings(Result) = 0

\* The same rule restricted to boundaries Python treats as true (non-zero).
HeapRuleNonZero ==
    (pc = "done" /\ Resolved.heap_start > 0 /\ Resolved.heap_end > 0) =>
        IF Resolved.heap_start <= Addr /\ Addr < Resolved.heap_end
        THEN /\ \E l \in Lines(all_problems) :
                    IsCritical(l) /\ Contains("overlaps with heap", l)
             /\ Count("close to heap", Result) = 0
        ELSE IF Abs(Addr - Resolved.heap_start) < 256
        THEN /\ \E l \in Lines(all_warnings) :
                    IsWarning(l) /\ Contains("close to heap", l)
             /\ Count("overlaps with heap", Result) = 0
        ELSE HeapFindings(Result) = 0

(***************************************************************************)
(* C3: with stack_start and stack_end both resolved: inside                *)
(* [stack_start, stack_end) a critical stack-overlap finding; otherwise    *)
(* within 1024 bytes of stack_start (1024 itself excluded) a proximity     *)
(* warning; otherwise no stack-related finding.                            *)
(***************************************************************************)
C3_StackRule ==
    (pc = "done" /\ Resolved.stack_start # None /\ Resolved.stack_end # None) =>
        IF Resolved.stack_start <= Addr /\ Addr < Resolved.stack_end
        THEN \E l \in Lines(Result) : IsCritical(l) /\ Contains("overlaps with stack", l)
        ELSE IF Abs(Addr - Resolved.stack_start) < 1024
        THEN \E l \in Lines(Result) : IsWarning(l) /\ Contains("close to stack", l)
        ELSE StackFindings(Result) = 0

StackRuleNonZero ==
    (pc = "done" /\ Resolved.stack_start > 0 /\ Resolved.stack_end > 0) =>
        IF Resolved.stack_start <= Addr /\ Addr < Resolved.stack_end
        THEN /\ \E l \in Lines(all_problems) :
                    IsCritical(l) /\ Contains("overlaps with stack", l)
             /\ Count("close to stack", Result) = 0
        ELSE IF Abs(Addr - Resolved.stack_start) < 1024
        THEN /\ \E l \in Lines(all_warnings) :
                    IsWarning(l) /\ Contains("close to stack", l)
             /\ Count("overlaps with stack", Result) = 0
        ELSE StackFindings(Result) = 0

(***************************************************************************)
(* C4: a check whose boundary is absent produces nothing (heap: either     *)
(* marker absent; stack: either marker absent; RTOS arena: no heap base),   *)
(* and every primary finding of the checks that do not depend on the       *)
(* absent boundary is still in the result.                                 *)
(***************************************************************************)
Kept(seq, kept) == \A l \in Lines(seq) : IsPrimary(l) => l \in kept

C4_GracefulDegradation ==
    pc = "done" =>
        LET kept  == Lines(Result)
            b     == Resolved
            place == check_volatile_placement(var)
            heap  == HeapCheck(var, b)
            stack == StackCheck(var, b)
            arena == FreertosHeapCheck(var, nm)
            bss   == BssCheck(var)
        IN  /\ (b.heap_start = None \/ b.heap_end = None) =>
                 /\ HeapFindings(Result) = 0
                 /\ Kept(place \o stack \o arena \o bss, kept)
            /\ (b.stack_start = None \/ b.stack_end = None) =>
                 /\ StackFindings(Result) = 0
                 /\ Kept(place \o heap \o arena \o bss, kept)
            /\ MarkerBases = {} =>
                 /\ Count("inside FreeRTOS heap", Result) = 0
                 /\ Kept(place \o heap \o stack \o bss, kept)

\* heap_end is missing, the address is the heap start itself and lies in the
\* RTOS arena: no heap finding, the arena finding is reported.
C4_Witness ==
    /\ pc = "done"
    /\ Resolved.heap_start = 536936448
    /\ Resolved.heap_end = None
    /\ Addr = 536936448
    /\ MarkerBases = {536903680}
    /\ HeapFindings(Result) = 0
    /\ Count("inside FreeRTOS heap", all_problems) = 1

(***************************************************************************)
(* C5: each resolved RTOS heap base whose arena [base, base + 0x10000)     *)
(* holds the address yields one error finding, in the problems list; an    *)
(* address outside every arena (base + 0x10000 included) yields none.      *)
(***************************************************************************)
C5_RtosArenaRule ==
    pc = "done" =>
        /\ Count("inside FreeRTOS heap", all_problems) = Cardinality(MarkerHits)
        /\ \A l \in Lines(Result) :
               Contains("inside FreeRTOS heap", l) => IsError(l)
        /\ (\A base \in MarkerBases : ~(base <= Addr /\ Addr < base + 65536))
               => Count("inside FreeRTOS heap", Result) = 0
        /\ (\E base \in MarkerBases : base <= Addr /\ Addr < base + 65536)
               => \E l \in Lines(all_problems) :
                      IsError(l) /\ Contains("inside FreeRTOS heap", l)

C5_Witness ==
    /\ pc = "done"
    /\ MarkerBases = {536903680}
    /\ Addr = 536903936
    /\ Count("inside FreeRTOS heap", all_problems) = 1

\* The boundary case of C5: the address is base + 0x10000.
C5_WitnessBoundary ==
    /\ pc = "done"
    /\ MarkerBases = {536903680}
    /\ Addr = 536969216
    /\ Count("inside FreeRTOS heap", Result) = 0

(***************************************************************************)
(* C6: an address in [FLASH_START, FLASH_END) gives exactly one critical   *)
(* read-only-placement finding, whatever the alignment, section, name and  *)
(* boundaries; an address outside gives none.                              *)
(***************************************************************************)
C6_FlashRule ==
    pc = "done" =>
        IF 268435456 <= Addr /\ Addr < 270532608
        THEN /\ Count("placed in FLASH", all_problems) = 1
             /\ \A l \in Lines(Result) : Contains("placed in FLASH", l) => IsCritical(l)
        ELSE Count("placed in FLASH", Result) = 0

C6_Witness ==
    /\ pc = "done"
    /\ Addr = 270532607
    /\ var.section = ".bss"
    /\ Len(nm) > 1
    /\ Count("placed in FLASH", all_problems) = 1

(***************************************************************************)
(* C7: the result holds an alignment error if and only if the address is   *)
(* not a multiple of 4, whatever the region; a misaligned address in flash *)
(* gets both the read-only-placement critical and the alignment error.     *)
(***************************************************************************)
C7_AlignmentRule ==
    pc = "done" =>
        /\ (Addr % 4 # 0) <=> (Count("not 4-byte aligned", all_problems) = 1)
        /\ (Addr % 4 = 0) <=> (Count("not 4-byte aligned", Result) = 0)
        /\ \A l \in Lines(Result) : Contains("not 4-byte aligned", l) => IsError(l)
        /\ (Addr % 4 # 0 /\ 268435456 <= Addr /\ Addr < 270532608) =>
               /\ Count("placed in FLASH", all_problems) = 1
               /\ Count("not 4-byte aligned", all_problems) = 1

C7_Witness ==
    /\ pc = "done"
    /\ Addr = 268455937
    /\ \E i, j \in 1..Len(all_problems) :
          /\ i < j
          /\ IsCritical(all_problems[i]) /\ Contains("placed in FLASH", all_problems[i])
          /\ IsError(all_problems[j]) /\ Contains("not 4-byte aligned", all_problems[j])

(***************************************************************************)
(* C8: an address in [SCRATCH_X_START, SCRATCH_Y_END) gives exactly one    *)
(* scratch-placement finding, a warning, reported in the warnings list and *)
(* not in the problems list; an address outside gives none.                *)
(***************************************************************************)
C8_ScratchRule ==
    pc = "done" =>
        IF 537133056 <= Addr /\ Addr < 537141248
        THEN /\ Count("in scratch RAM", all_warnings) = 1
             /\ Count("in scratch RAM", all_problems) = 0
             /\ \A l \in Lines(Result) : Contains("in scratch RAM", l) => IsWarning(l)
        ELSE Count("in scratch RAM", Result) = 0

\* What the code does keep of C8: one warning line, in the warnings list.
ScratchRuleWarningsList ==
    pc = "done" =>
        IF 537133056 <= Addr /\ Addr < 537141248
        THEN /\ Count("in scratch RAM", all_warnings) = 1
             /\ \A l \in Lines(Result) : Contains("in scratch RAM", l) => IsWarning(l)
        ELSE Count("in scratch RAM", Result) = 0

(***************************************************************************)
(* C9: the uninitialized-volatile warning is in the result if and only if  *)
(* the section is .bss and the name contains "volatile" compared without   *)
(* case; neither the address nor the boundaries matter.                    *)
(***************************************************************************)
C9_BssVolatileRule ==
    pc = "done" =>
        LET fires == var.section = ".bss" /\ Contains("volatile", Lower(var.name))
        IN  /\ fires <=> (Count("in .bss section", all_warnings) = 1)
            /\ ~fires <=> (Count("in .bss section", Result) = 0)
            /\ \A l \in Lines(Result) : Contains("in .bss section", l) => IsWarning(l)

C9_Witness ==
    /\ pc = "done"
    /\ var.name = "gVolatileFlag"
    /\ var.section = ".bss"
    /\ Count("in .bss section", all_warnings) = 1

(***************************************************************************)
(* C10: no line a check produces is lost: every line, follow-up lines      *)
(* included, is in one of the two lists analyze_variable returns.          *)
(***************************************************************************)
C10_FollowUpsKept ==
    pc = "done" => \A l \in Lines(Produced) : l \in Lines(Result)

\* What the code does instead: a follow-up line is in neither list.
FollowUpsDropped ==
    pc = "done" =>
        \A l \in Lines(Produced) : ~IsPrimary(l) => l \notin Lines(Result)

====
